---- MODULE Spec2Model ----
(***************************************************************************)
(* Model of src/main.py: a FastAPI service in front of one Google Drive    *)
(* folder.  The module holds three specifications:                         *)
(*   Spec          the process: module import, startup hook, the event     *)
(*                 loop and its four endpoints, DriveService and provider; *)
(*   SpecDownload  the MediaIoBaseDownload chunk loop and UTF-8 decoding;  *)
(*   SpecPdf       _extract_pdf_text's page loop and strip().              *)
(***************************************************************************)
EXTENDS Integers, Sequences, FiniteSets, TLC

VARIABLES
    env,          \* os.environ of the process (the three recognised options)
    path_exists,  \* what os.path.exists(credentials_path) answers
    phase,        \* "import" | "loaded" | "serving" | "crashed"
    service,      \* drive_service.service (None, or the built client)
    folder_id,    \* drive_service.folder_id
    startup,      \* outcome of startup_event's authenticate(): "notrun" | "ok" | "failed"
    lastAuth,     \* history: the most recent authenticate() call
    authOk,       \* history: authenticate() calls that returned normally (counts to 2)
    reqs,         \* the in-flight HTTP requests, one record per connection slot
    dl,           \* SpecDownload: one download ([content, chunks, result])
    pdf           \* SpecPdf: one PDF extraction ([pages, result])

vars == <<env, path_exists, phase, service, folder_id, startup, lastAuth, authOk, reqs, dl, pdf>>

mainVars == <<env, path_exists, phase, service, folder_id, startup, lastAuth, authOk, reqs>>

(***************************************************************************)
(* Bounds                                                                  *)
(***************************************************************************)
\* Connection slots: the number of HTTP requests that can be in flight at once.
MaxInFlight == 2
\* Entries the provider puts in one page of a files.list answer
\* (the Drive default is 100; scaled down with the folder contents).
PageSize == 2
\* Longest byte content of a download in SpecDownload.
MaxBytes == 3
\* Most pages of a PDF, and longest text of one page, in SpecPdf.
MaxPages == 2
MaxPageLen == 2

(***************************************************************************)
(* Python values                                                           *)
(***************************************************************************)
None == "None"

\* Python truthiness of an os.getenv() result: None and "" are falsy.
Truthy(v) == v # None /\ v # ""

\* str.startswith on token sequences.
StartsWith(s, p) == Len(s) >= Len(p) /\ SubSeq(s, 1, Len(p)) = p

Min(a, b) == IF a < b THEN a ELSE b

(***************************************************************************)
(* Bytes and text.  A byte string is a sequence of integers 0..255, a str  *)
(* a sequence of code points.                                              *)
(***************************************************************************)
\* bytes.decode('utf-8'), strict, over the one- and two-byte forms (the byte
\* alphabets of this module hold no three- or four-byte lead): the decoded
\* text, or the UnicodeDecodeError.
RECURSIVE utf8_decode(_)
utf8_decode(b) ==
    IF b = <<>> THEN [ok |-> TRUE, text |-> <<>>]
    ELSE IF b[1] < 128 THEN
        LET r == utf8_decode(Tail(b))
        IN  IF r.ok THEN [ok |-> TRUE, text |-> <<b[1]>> \o r.text] ELSE r
    ELSE IF b[1] \in 194..223 /\ Len(b) >= 2 /\ b[2] \in 128..191 THEN
        LET r == utf8_decode(SubSeq(b, 3, Len(b)))
        IN  IF r.ok
            THEN [ok |-> TRUE, text |-> <<(b[1] - 192) * 64 + (b[2] - 128)>> \o r.text]
            ELSE r
    ELSE [ok |-> FALSE, text |-> <<>>]

\* MediaIoBaseDownload.next_chunk writes the chunk it received at the end of fh.
WriteChunk(fh, chunk) == fh \o chunk

\* A loop guard that is inverted: the body never runs.
WhileDoneIsTrue(done) == done = TRUE

\* `while done is False:`
WhileDoneIsFalse(done) == done = FALSE

\* fh = io.BytesIO(); done = False; while done is False: status, done =
\* downloader.next_chunk().  chunks is what the provider still has to deliver;
\* next_chunk reports done with the last chunk (at once for an empty body).
\* The value is fh.getvalue().
RECURSIVE download_loop(_, _, _)
download_loop(fh, chunks, done) ==
    IF WhileDoneIsFalse(done) THEN
        IF chunks = <<>> THEN download_loop(fh, <<>>, TRUE)
        ELSE download_loop(WriteChunk(fh, Head(chunks)), Tail(chunks), Tail(chunks) = <<>>)
    ELSE fh

\* The four download helpers after their request is built: loop, then
\* fh.getvalue().decode('utf-8').
download_and_decode(chunks) == utf8_decode(download_loop(<<>>, chunks, FALSE))

\* str.isspace() of one code point.
IsSpace(c) ==
    c \in (9..13) \cup (28..32) \cup {133, 160, 5760, 8232, 8233, 8239, 8287, 12288}
          \cup (8192..8202)

RECURSIVE lstrip(_)
lstrip(s) == IF s # <<>> /\ IsSpace(Head(s)) THEN lstrip(Tail(s)) ELSE s

RECURSIVE rstrip(_)
rstrip(s) ==
    IF s # <<>> /\ IsSpace(s[Len(s)]) THEN rstrip(SubSeq(s, 1, Len(s) - 1)) ELSE s

\* A strip that only trims the front.
strip_left_only(s) == lstrip(s)

\* str.strip()
strip(s) == rstrip(lstrip(s))

\* text = ""; for page in pdf_reader.pages: text += page.extract_text() + "\n"
RECURSIVE page_loop(_, _)
page_loop(text, pages) ==
    IF pages = <<>> THEN text
    ELSE page_loop(text \o Head(pages) \o <<10>>, Tail(pages))

\* _extract_pdf_text once the reader is open: the page loop, then text.strip().
extract_pdf_text(pages) == strip(page_loop(<<>>, pages))

(***************************************************************************)
(* The provider: what the Drive API answers.  A MIME type is the sequence  *)
(* of its tokens, so that startswith('text/') is computed on it.           *)
(***************************************************************************)
GoogleDoc    == <<"application", "/", "vnd.google-apps.document">>
GoogleSheet  == <<"application", "/", "vnd.google-apps.spreadsheet">>
GoogleSlides == <<"application", "/", "vnd.google-apps.presentation">>
Pdf          == <<"application", "/", "pdf">>
TextPlain    == <<"text", "/", "plain">>
TextCsv      == <<"text", "/", "csv">>
Zip          == <<"application", "/", "zip">>
BareText     == <<"text">>

\* The folders and files the provider holds.  media: the chunks a media
\* download delivers; plain and csv: the chunks an export to that type
\* delivers; pages: what PyPDF2 extracts from each page of the media.
Folders == {"F1", "F2"}

Drive ==
    [ doc    |-> [name |-> "notes", mimeType |-> GoogleDoc, parent |-> "F1", trashed |-> FALSE,
                  media |-> <<>>, plain |-> <<<<72>>, <<195, 169>>>>, csv |-> <<>>, pages |-> <<>>],
      sheet  |-> [name |-> "table", mimeType |-> GoogleSheet, parent |-> "F1", trashed |-> FALSE,
                  media |-> <<>>, plain |-> <<<<49, 9, 50>>>>, csv |-> <<<<49>>, <<44>>, <<50>>>>,
                  pages |-> <<>>],
      slides |-> [name |-> "deck", mimeType |-> GoogleSlides, parent |-> "F1", trashed |-> TRUE,
                  media |-> <<>>, plain |-> <<<<83, 49>>, <<10, 83, 50>>>>, csv |-> <<>>,
                  pages |-> <<>>],
      pdf    |-> [name |-> "paper", mimeType |-> Pdf, parent |-> "F1", trashed |-> FALSE,
                  media |-> <<<<37, 80>>, <<68, 70>>>>, plain |-> <<>>, csv |-> <<>>,
                  pages |-> << <<32, 97>>, <<>>, <<98, 10>> >>],
      txt    |-> [name |-> "readme", mimeType |-> TextPlain, parent |-> "F2", trashed |-> FALSE,
                  media |-> <<<<104>>, <<105>>>>, plain |-> <<>>, csv |-> <<>>, pages |-> <<>>],
      zip    |-> [name |-> "bundle", mimeType |-> Zip, parent |-> "F2", trashed |-> FALSE,
                  media |-> <<<<80, 75>>>>, plain |-> <<>>, csv |-> <<>>, pages |-> <<>>],
      odd    |-> [name |-> "odd", mimeType |-> BareText, parent |-> "F3", trashed |-> FALSE,
                  media |-> <<<<120>>>>, plain |-> <<>>, csv |-> <<>>, pages |-> <<>>] ]

FileIds == DOMAIN Drive

\* A file identifier the provider does not know.
MissingId == "nope"

\* The entries the query "'<folder>' in parents and trashed=false" selects.
Matching(folder) == {f \in FileIds : Drive[f].parent = folder /\ ~Drive[f].trashed}

\* files().list(q=..., fields="files(id, name, mimeType)").execute(): the
\* provider answers with one page of at most PageSize of the selected entries
\* (which ones is the provider's choice); the rest stays behind a page token.
FirstPages(folder) ==
    {pg \in SUBSET Matching(folder) : Cardinality(pg) = Min(PageSize, Cardinality(Matching(folder)))}

\* files().get(fileId=...).execute(): the metadata, or HttpError (404).
FilesGet(id) ==
    IF id \in FileIds
    THEN [ok |-> TRUE, name |-> Drive[id].name, mimeType |-> Drive[id].mimeType]
    ELSE [ok |-> FALSE, name |-> None, mimeType |-> <<>>]

\* files().export_media(fileId, mimeType): the chunks of the export.
ExportMedia(id, mime) == IF mime = TextCsv THEN Drive[id].csv ELSE Drive[id].plain

\* files().get_media(fileId): the chunks of the stored content.
GetMedia(id) == Drive[id].media

RECURSIVE Flatten(_)
Flatten(chunks) == IF chunks = <<>> THEN <<>> ELSE Head(chunks) \o Flatten(Tail(chunks))

\* PyPDF2.PdfReader(fh).pages, page.extract_text() of each: the page texts of
\* the file whose stored content fh holds.
PdfReaderPages(id, bytes) ==
    IF bytes = Flatten(Drive[id].media) THEN [ok |-> TRUE, pages |-> Drive[id].pages]
    ELSE [ok |-> FALSE, pages |-> <<>>]

(***************************************************************************)
(* Exceptions and HTTP responses                                           *)
(***************************************************************************)
NoExc == [type |-> "none", status |-> 0, detail |-> <<>>]

\* fastapi.HTTPException(status_code=status, detail=detail)
HTTPException(status, detail) == [type |-> "HTTPException", status |-> status, detail |-> detail]

\* Any other exception class, with its message.
Raised(type, detail) == [type |-> type, status |-> 0, detail |-> detail]

\* str(e): an HTTPException prints as "<status_code>: <detail>", any other
\* exception as its message.
str_exc(e) == IF e.type = "HTTPException" THEN <<e.status>> \o e.detail ELSE e.detail

\* Response bodies: none, the FileInfo list of /files, the FileContent of
\* /file/{file_id}, the message of / and /health.
NoBody == [type |-> "none", files |-> {}, id |-> "-", name |-> "-", content |-> <<>>, message |-> "-"]

ListBody(files) == [NoBody EXCEPT !.type = "list", !.files = files]

FileBody(id, name, content) ==
    [NoBody EXCEPT !.type = "file", !.id = id, !.name = name, !.content = content]

MessageBody(m) == [NoBody EXCEPT !.type = "message", !.message = m]

NoResp == [status |-> 0, detail |-> <<>>, body |-> NoBody]

\* The try/except of the two endpoints: the result is returned (200); any
\* Exception, an HTTPException included, is re-raised as
\* HTTPException(status_code=500, detail=str(e)).
endpoint(exc, body) ==
    IF exc.type # "none"
    THEN [status |-> 500, detail |-> str_exc(exc), body |-> NoBody]
    ELSE [status |-> 200, detail |-> <<>>, body |-> body]

(***************************************************************************)
(* DriveService                                                            *)
(***************************************************************************)
\* A constructor that only rejects an unset variable.
FolderIdUnset(v) == v = None

\* `if not self.folder_id:` of __init__
FolderIdMissing(v) == ~Truthy(v)

\* A credential-file test that forgets os.path.exists.
UseCredentialPathUnchecked(path, exists) == Truthy(path)

\* `if credentials_path and os.path.exists(credentials_path):`
UseCredentialFile(path, exists) == Truthy(path) /\ exists

\* The client build() returns, tagged with the credentials it was built from.
Client(source) == IF source = "file" THEN "client:file" ELSE "client:inline"

NoAuth == [branch |-> "-", read_json |-> FALSE, exc |-> NoExc, service |-> None]

\* authenticate(): the branch taken, whether GOOGLE_SERVICE_ACCOUNT_JSON was
\* read, the HTTPException raised (NoExc when it returns) and self.service
\* afterwards.  loads: whether loading the credentials and build() succeed
\* (from_service_account_file, json.loads, from_service_account_info and
\* build may each raise); svc: self.service before the call.
authenticate(svc, loads) ==
    IF UseCredentialFile(env.GOOGLE_APPLICATION_CREDENTIALS, path_exists) THEN
        IF loads
        THEN [branch |-> "file", read_json |-> FALSE, exc |-> NoExc, service |-> Client("file")]
        ELSE [branch |-> "file", read_json |-> FALSE,
              exc |-> HTTPException(500, <<"Authentication failed", "credential file">>),
              service |-> svc]
    ELSE IF Truthy(env.GOOGLE_SERVICE_ACCOUNT_JSON) THEN
        IF loads
        THEN [branch |-> "inline", read_json |-> TRUE, exc |-> NoExc, service |-> Client("inline")]
        ELSE [branch |-> "inline", read_json |-> TRUE,
              exc |-> HTTPException(500, <<"Authentication failed", "inline credentials">>),
              service |-> svc]
    ELSE [branch |-> "none", read_json |-> TRUE,
          exc |-> HTTPException(500, <<"Authentication failed", "No valid Google credentials found">>),
          service |-> svc]

\* A lazy-initialisation test that never authenticates.
NeverAuthenticate(svc) == FALSE

\* `if not self.service:` of list_files and get_file_content
NeedsAuth(svc) == svc = None

\* list_files() after the session check: every outcome the provider allows.
\* The FileInfo list is kept as the set of its {id, name} records (its order
\* is the provider's).  An HttpError becomes HTTPException(400).
list_files_outcomes(folder) ==
    {[exc |-> NoExc, calls |-> << <<"files.list">> >>,
      body |-> ListBody({[id |-> f, name |-> Drive[f].name] : f \in pg})] : pg \in FirstPages(folder)}
    \cup {[exc |-> HTTPException(400, <<"Error listing files", "HttpError">>),
           calls |-> << <<"files.list">> >>, body |-> NoBody]}

\* A dispatch whose text test leaves out the slash.
StrategyLoosePrefix(mime) ==
    IF mime = GoogleDoc THEN "doc"
    ELSE IF mime = GoogleSheet THEN "sheet"
    ELSE IF mime = GoogleSlides THEN "slides"
    ELSE IF mime = Pdf THEN "pdf"
    ELSE IF StartsWith(mime, <<"text">>) THEN "text"
    ELSE "unsupported"

\* The if/elif chain of get_file_content on mime_type.
Strategy(mime) ==
    IF mime = GoogleDoc THEN "doc"
    ELSE IF mime = GoogleSheet THEN "sheet"
    ELSE IF mime = GoogleSlides THEN "slides"
    ELSE IF mime = Pdf THEN "pdf"
    ELSE IF StartsWith(mime, <<"text", "/">>) THEN "text"
    ELSE "unsupported"

\* The outcome of a helper that issued the provider request `call` and
\* decodes what it downloaded.
Decoded(call, r) ==
    IF r.ok THEN [exc |-> NoExc, content |-> r.text, calls |-> <<call>>]
    ELSE [exc |-> Raised("UnicodeDecodeError", <<"invalid utf-8">>), content |-> <<>>,
          calls |-> <<call>>]

_export_google_doc(id) ==
    Decoded(<<"export_media", TextPlain>>, download_and_decode(ExportMedia(id, TextPlain)))

_export_google_sheet(id) ==
    Decoded(<<"export_media", TextCsv>>, download_and_decode(ExportMedia(id, TextCsv)))

_export_google_slides(id) ==
    Decoded(<<"export_media", TextPlain>>, download_and_decode(ExportMedia(id, TextPlain)))

_extract_pdf_text(id) ==
    LET rd == PdfReaderPages(id, download_loop(<<>>, GetMedia(id), FALSE))
    IN  IF rd.ok
        THEN [exc |-> NoExc, content |-> extract_pdf_text(rd.pages), calls |-> << <<"get_media">> >>]
        ELSE [exc |-> Raised("PdfReadError", <<"not a pdf">>), content |-> <<>>,
              calls |-> << <<"get_media">> >>]

_download_text_file(id) == Decoded(<<"get_media">>, download_and_decode(GetMedia(id)))

\* get_file_content(file_id) after the session check: the exception it raises
\* (NoExc when it returns), the FileContent, the provider requests it issued
\* and the strategy it ran.
get_file_content(file_id) ==
    LET meta == FilesGet(file_id)
        st   == Strategy(meta.mimeType)
        r    == CASE st = "doc"    -> _export_google_doc(file_id)
                  [] st = "sheet"  -> _export_google_sheet(file_id)
                  [] st = "slides" -> _export_google_slides(file_id)
                  [] st = "pdf"    -> _extract_pdf_text(file_id)
                  [] st = "text"   -> _download_text_file(file_id)
                  [] OTHER         -> [exc |-> HTTPException(400, <<"Unsupported file type", meta.mimeType>>),
                                       content |-> <<>>, calls |-> <<>>]
    IN  IF ~meta.ok
        THEN [exc |-> HTTPException(400, <<"Error getting file content", "HttpError">>),
              calls |-> << <<"files.get">> >>, strategy |-> "-", body |-> NoBody]
        ELSE [exc |-> r.exc, calls |-> << <<"files.get">> >> \o r.calls, strategy |-> st,
              body |-> IF r.exc.type = "none"
                       THEN FileBody(file_id, meta.name, r.content)
                       ELSE NoBody]

(***************************************************************************)
(* The process: module import, startup hook, event loop, endpoints         *)
(***************************************************************************)
Slots == 1..MaxInFlight

\* What a request asks for: the route, and the path parameter of /file/{file_id}.
Inputs ==
    {[kind |-> k, file_id |-> "-"] : k \in {"root", "health", "files"}}
    \cup {[kind |-> "file", file_id |-> f] : f \in FileIds \cup {MissingId}}

IdleSlot ==
    [pc |-> "idle", kind |-> "-", file_id |-> "-", auth |-> "-", calls |-> <<>>,
     strategy |-> "-", exc |-> NoExc, resp |-> NoResp]

DlIdle == [content |-> <<>>, chunks |-> <<>>, state |-> "off", fh |-> <<>>, result |-> [ok |-> TRUE, text |-> <<>>]]

PdfIdle == [pages |-> <<>>, state |-> "off", result |-> <<>>]

\* os.getenv answers None for an unset variable.  An empty value is falsy
\* like None (Truthy); it is drawn for GDRIVE_FOLDER_ID only.
Init ==
    /\ env \in [GDRIVE_FOLDER_ID : {None, ""} \cup Folders,
                GOOGLE_APPLICATION_CREDENTIALS : {None, "/sa.json"},
                GOOGLE_SERVICE_ACCOUNT_JSON : {None, "{sa}"}]
    /\ path_exists \in (IF Truthy(env.GOOGLE_APPLICATION_CREDENTIALS) THEN BOOLEAN ELSE {FALSE})
    /\ phase = "import"
    /\ service = None
    /\ folder_id = None
    /\ startup = "notrun"
    /\ lastAuth = NoAuth
    /\ authOk = 0
    /\ reqs = [r \in Slots |-> IdleSlot]
    /\ dl = DlIdle
    /\ pdf = PdfIdle

\* `drive_service = DriveService()` at module level: __init__ reads
\* GDRIVE_FOLDER_ID and raises ValueError when it is missing, which ends the
\* import: no app is served.
Construct ==
    /\ phase = "import"
    /\ IF FolderIdMissing(env.GDRIVE_FOLDER_ID)
       THEN /\ phase' = "crashed"
            /\ UNCHANGED folder_id
       ELSE /\ phase' = "loaded"
            /\ folder_id' = env.GDRIVE_FOLDER_ID
    /\ service' = None
    /\ UNCHANGED <<env, path_exists, startup, lastAuth, authOk, reqs, dl, pdf>>

\* A startup hook without its try/except: the exception ends the startup.
StartupPropagates(exc) == FALSE

\* startup_event: `except Exception as e: logger.error(...)` swallows whatever
\* authenticate() raises.
StartupCatches(exc) == TRUE

\* The startup hook, run once by the server before it accepts requests.
Startup ==
    /\ phase = "loaded"
    /\ \E loads \in BOOLEAN :
        LET a == authenticate(service, loads)
        IN  /\ service' = a.service
            /\ lastAuth' = a
            /\ startup' = IF a.exc.type = "none" THEN "ok" ELSE "failed"
            /\ authOk' = IF a.exc.type = "none" THEN Min(authOk + 1, 2) ELSE authOk
            /\ phase' = IF a.exc.type = "none" \/ StartupCatches(a.exc) THEN "serving" ELSE "crashed"
    /\ UNCHANGED <<env, path_exists, folder_id, reqs, dl, pdf>>

\* A request arrives on a free connection: the server creates its task.
Arrive(r) ==
    /\ phase = "serving"
    /\ reqs[r].pc = "idle"
    /\ \E in \in Inputs :
        reqs' = [reqs EXCEPT ![r] = [IdleSlot EXCEPT !.pc = "queued", !.kind = in.kind,
                                                     !.file_id = in.file_id]]
    /\ UNCHANGED <<env, path_exists, phase, service, folder_id, startup, lastAuth, authOk, dl, pdf>>

\* Handlers running in a thread pool: a handler starts whatever the others do.
ThreadPoolFree(r) == TRUE

\* The four endpoints are `async def` functions that never await: the event
\* loop runs a handler from its first line to its return (or raise) before
\* it runs any other task, so a handler starts only when no other one is
\* under way.
EventLoopFree(r) == \A o \in Slots \ {r} : reqs[o].pc \notin {"auth", "call"}

\* GET / : root()
Root(r) ==
    /\ reqs[r].pc = "queued" /\ reqs[r].kind = "root"
    /\ EventLoopFree(r)
    /\ reqs' = [reqs EXCEPT ![r].pc = "done",
                            ![r].resp = [status |-> 200, detail |-> <<>>, body |-> MessageBody("running")]]
    /\ UNCHANGED <<env, path_exists, phase, service, folder_id, startup, lastAuth, authOk, dl, pdf>>

\* GET /health : health_check()
Health(r) ==
    /\ reqs[r].pc = "queued" /\ reqs[r].kind = "health"
    /\ EventLoopFree(r)
    /\ reqs' = [reqs EXCEPT ![r].pc = "done",
                            ![r].resp = [status |-> 200, detail |-> <<>>, body |-> MessageBody("healthy")]]
    /\ UNCHANGED <<env, path_exists, phase, service, folder_id, startup, lastAuth, authOk, dl, pdf>>

\* GET /files and GET /file/{file_id} up to the session check of list_files
\* and get_file_content: `if not self.service:`.
CheckSession(r) ==
    /\ reqs[r].pc = "queued" /\ reqs[r].kind \in {"files", "file"}
    /\ EventLoopFree(r)
    /\ reqs' = IF NeedsAuth(service)
               THEN [reqs EXCEPT ![r].pc = "auth", ![r].auth = "pending"]
               ELSE [reqs EXCEPT ![r].pc = "call", ![r].auth = "skipped"]
    /\ UNCHANGED <<env, path_exists, phase, service, folder_id, startup, lastAuth, authOk, dl, pdf>>

\* `self.authenticate()` of the session check.  Its HTTPException is no
\* HttpError: it leaves the method and the endpoint turns it into a 500.
Authenticate(r) ==
    /\ reqs[r].pc = "auth"
    /\ \E loads \in BOOLEAN :
        LET a == authenticate(service, loads)
        IN  /\ service' = a.service
            /\ lastAuth' = a
            /\ authOk' = IF a.exc.type = "none" THEN Min(authOk + 1, 2) ELSE authOk
            /\ reqs' = IF a.exc.type = "none"
                       THEN [reqs EXCEPT ![r].pc = "call", ![r].auth = "ok"]
                       ELSE [reqs EXCEPT ![r].pc = "done", ![r].auth = "failed",
                                         ![r].exc = a.exc, ![r].resp = endpoint(a.exc, NoBody)]
    /\ UNCHANGED <<env, path_exists, phase, folder_id, startup, dl, pdf>>

\* `self.service.files()` on an absent handle: AttributeError.
NoSession == Raised("AttributeError", <<"NoneType has no attribute files">>)

\* The rest of list_files(), and the endpoint's answer.
ListFiles(r) ==
    /\ reqs[r].pc = "call" /\ reqs[r].kind = "files"
    /\ \E out \in list_files_outcomes(folder_id) :
        reqs' = IF service = None
                THEN [reqs EXCEPT ![r].pc = "done", ![r].exc = NoSession,
                                  ![r].resp = endpoint(NoSession, NoBody)]
                ELSE [reqs EXCEPT ![r].pc = "done", ![r].calls = out.calls, ![r].exc = out.exc,
                                  ![r].resp = endpoint(out.exc, out.body)]
    /\ UNCHANGED <<env, path_exists, phase, service, folder_id, startup, lastAuth, authOk, dl, pdf>>

\* The rest of get_file_content(file_id), and the endpoint's answer.
GetFile(r) ==
    /\ reqs[r].pc = "call" /\ reqs[r].kind = "file"
    /\ LET out == get_file_content(reqs[r].file_id)
       IN  reqs' = IF service = None
                   THEN [reqs EXCEPT ![r].pc = "done", ![r].exc = NoSession,
                                     ![r].resp = endpoint(NoSession, NoBody)]
                   ELSE [reqs EXCEPT ![r].pc = "done", ![r].calls = out.calls,
                                     ![r].strategy = out.strategy, ![r].exc = out.exc,
                                     ![r].resp = endpoint(out.exc, out.body)]
    /\ UNCHANGED <<env, path_exists, phase, service, folder_id, startup, lastAuth, authOk, dl, pdf>>

\* The response is sent and the connection is free again.
Respond(r) ==
    /\ reqs[r].pc = "done"
    /\ reqs' = [reqs EXCEPT ![r] = IdleSlot]
    /\ UNCHANGED <<env, path_exists, phase, service, folder_id, startup, lastAuth, authOk, dl, pdf>>

Next ==
    \/ Construct
    \/ Startup
    \/ \E r \in Slots : Arrive(r)
    \/ \E r \in Slots : Root(r)
    \/ \E r \in Slots : Health(r)
    \/ \E r \in Slots : CheckSession(r)
    \/ \E r \in Slots : Authenticate(r)
    \/ \E r \in Slots : ListFiles(r)
    \/ \E r \in Slots : GetFile(r)
    \/ \E r \in Slots : Respond(r)

Spec == Init /\ [][Next]_vars

(***************************************************************************)
(* SpecDownload: one download helper on every content and every chunking   *)
(***************************************************************************)
\* The bytes of the contents: "A", and the two bytes of U+00E9.
ByteAlphabet == {65, 195, 169}

SeqsUpTo(S, n) == UNION {[1..k -> S] : k \in 0..n}

\* c cut after each position of cuts, from position start on.
RECURSIVE SplitAt(_, _, _)
SplitAt(c, cuts, start) ==
    LET later == {k \in cuts : k >= start}
    IN  IF later = {} THEN <<SubSeq(c, start, Len(c))>>
        ELSE LET k == CHOOSE x \in later : \A y \in later : x <= y
             IN  <<SubSeq(c, start, k)>> \o SplitAt(c, cuts, k + 1)

\* Every way the provider can deliver c in one or more non-empty chunks
\* (an empty body is delivered in no chunk).
Chunkings(c) ==
    IF c = <<>> THEN {<<>>}
    ELSE {SplitAt(c, cuts, 1) : cuts \in SUBSET (1..(Len(c) - 1))}

\* The process is not started in the two helper specifications.
MainOff ==
    /\ env = [GDRIVE_FOLDER_ID |-> None, GOOGLE_APPLICATION_CREDENTIALS |-> None,
              GOOGLE_SERVICE_ACCOUNT_JSON |-> None]
    /\ path_exists = FALSE
    /\ phase = "import"
    /\ service = None
    /\ folder_id = None
    /\ startup = "notrun"
    /\ lastAuth = NoAuth
    /\ authOk = 0
    /\ reqs = [r \in Slots |-> IdleSlot]

InitDownload ==
    /\ MainOff
    /\ pdf = PdfIdle
    /\ \E c \in SeqsUpTo(ByteAlphabet, MaxBytes) : \E ch \in Chunkings(c) :
        dl = [DlIdle EXCEPT !.content = c, !.chunks = ch, !.state = "request"]

\* fh = io.BytesIO(); downloader = MediaIoBaseDownload(fh, request); the loop.
RunLoop ==
    /\ dl.state = "request"
    /\ dl' = [dl EXCEPT !.state = "downloaded", !.fh = download_loop(<<>>, dl.chunks, FALSE)]
    /\ UNCHANGED <<mainVars, pdf>>

\* return fh.getvalue().decode('utf-8')
Decode ==
    /\ dl.state = "downloaded"
    /\ dl' = [dl EXCEPT !.state = "returned", !.result = utf8_decode(dl.fh)]
    /\ UNCHANGED <<mainVars, pdf>>

NextDownload == RunLoop \/ Decode

SpecDownload == InitDownload /\ [][NextDownload]_vars

(***************************************************************************)
(* SpecPdf: _extract_pdf_text on every sequence of page texts              *)
(***************************************************************************)
\* The characters of a page text: "a", space, newline.
PageAlphabet == {97, 32, 10}

InitPdf ==
    /\ MainOff
    /\ dl = DlIdle
    /\ \E pg \in SeqsUpTo(SeqsUpTo(PageAlphabet, MaxPageLen), MaxPages) :
        pdf = [PdfIdle EXCEPT !.pages = pg, !.state = "open"]

\* The page loop: text accumulates each page's text and a newline.
ReadPages ==
    /\ pdf.state = "open"
    /\ pdf' = [pdf EXCEPT !.state = "read", !.result = page_loop(<<>>, pdf.pages)]
    /\ UNCHANGED <<mainVars, dl>>

\* return text.strip()
StripText ==
    /\ pdf.state = "read"
    /\ pdf' = [pdf EXCEPT !.state = "returned", !.result = strip(pdf.result)]
    /\ UNCHANGED <<mainVars, dl>>

NextPdf == ReadPages \/ StripText

SpecPdf == InitPdf /\ [][NextPdf]_vars

(***************************************************************************)
(* Properties                                                              *)
(***************************************************************************)
\* A content type with the "text/" prefix, read off the type itself.
IsTextType(m) == Len(m) >= 2 /\ m[1] = "text" /\ m[2] = "/"

\* A content type get_file_content has no strategy for.
Unrecognized(m) == m \notin {GoogleDoc, GoogleSheet, GoogleSlides, Pdf} /\ ~IsTextType(m)

\* A GET /file/{file_id} whose metadata fetch answered: the handler has
\* returned or raised after the session was there.
Fetched(r) ==
    /\ reqs[r].pc = "done" /\ reqs[r].kind = "file"
    /\ reqs[r].auth \in {"ok", "skipped"}
    /\ reqs[r].file_id \in FileIds

\* C1: a GET /file/{file_id} of a file whose content type is none of the
\* three native types, not application/pdf and not text/... ends with a 400
\* response whose message names that type.
C1_UnsupportedIs400 ==
    \A r \in Slots :
        (Fetched(r) /\ Unrecognized(Drive[reqs[r].file_id].mimeType)) =>
            /\ reqs[r].resp.status = 400
            /\ reqs[r].resp.detail[Len(reqs[r].resp.detail)] = Drive[reqs[r].file_id].mimeType

\* C2: a successful listFiles() returns exactly the non-trashed entries whose
\* parent is the configured folder, however many pages the provider needs.
C2_ListIsExact ==
    \A r \in Slots :
        (reqs[r].pc = "done" /\ reqs[r].kind = "files" /\ reqs[r].resp.status = 200) =>
            reqs[r].resp.body.files =
                {[id |-> f, name |-> Drive[f].name] :
                    f \in {g \in FileIds : Drive[g].parent = folder_id /\ ~Drive[g].trashed}}

\* The configuration names a credential file that exists.
FileConfigured == env.GOOGLE_APPLICATION_CREDENTIALS \notin {None, ""} /\ path_exists

InlineConfigured == env.GOOGLE_SERVICE_ACCOUNT_JSON \notin {None, ""}

\* C3: authenticate() uses the credential file when one is configured and
\* exists, and then never reads the inline credentials; otherwise the inline
\* credentials when configured; otherwise it fails with "no valid
\* credentials".  Every failure is one HTTPException(500) and leaves the
\* session handle absent; a success installs the client of the branch.
C3_CredentialOrder ==
    lastAuth.branch # "-" =>
        /\ FileConfigured => (lastAuth.branch = "file" /\ ~lastAuth.read_json)
        /\ (~FileConfigured /\ InlineConfigured) => lastAuth.branch = "inline"
        /\ (~FileConfigured /\ ~InlineConfigured) =>
                /\ lastAuth.branch = "none"
                /\ lastAuth.exc.type = "HTTPException"
                /\ lastAuth.exc.detail[2] = "No valid Google credentials found"
        /\ lastAuth.exc.type # "none" =>
                /\ lastAuth.exc.type = "HTTPException"
                /\ lastAuth.exc.status = 500
                /\ service = None
        /\ lastAuth.exc.type = "none" =>
                service = (IF lastAuth.branch = "file" THEN "client:file" ELSE "client:inline")

\* C3 witness: loading the existing credential file failed although inline
\* credentials are configured; they were not read.
C3_Witness ==
    /\ FileConfigured /\ InlineConfigured
    /\ lastAuth.branch = "file" /\ lastAuth.exc.type = "HTTPException"
    /\ service = None

\* C4: with GDRIVE_FOLDER_ID unset or empty the construction fails: the
\* startup hook never runs and no request is ever accepted or handled.
C4_MissingFolderIsFatal ==
    env.GDRIVE_FOLDER_ID \in {None, ""} =>
        /\ phase \in {"import", "crashed"}
        /\ startup = "notrun"
        /\ service = None
        /\ \A r \in Slots : reqs[r].pc = "idle"

\* C4 witness: the import failed on an empty GDRIVE_FOLDER_ID.
C4_Witness == phase = "crashed" /\ env.GDRIVE_FOLDER_ID = ""

\* C5: whatever the chunking, the loop leaves the provider's bytes in the
\* buffer, and the text returned is those bytes decoded as UTF-8 (or the
\* decoding error they give).
C5_ChunkingIndependent ==
    /\ dl.state \in {"downloaded", "returned"} => dl.fh = dl.content
    /\ dl.state = "returned" => dl.result = utf8_decode(dl.content)

\* C5 witness: a content delivered in 3 chunks, the first cutting a two-byte
\* character, decoded to its two characters.
C5_Witness ==
    /\ dl.state = "returned"
    /\ dl.chunks = << <<195>>, <<169>>, <<65>> >>
    /\ dl.result = [ok |-> TRUE, text |-> <<233, 65>>]

\* The page texts joined by single newlines.
RECURSIVE JoinNewline(_)
JoinNewline(pages) ==
    IF pages = <<>> THEN <<>>
    ELSE IF Len(pages) = 1 THEN pages[1]
    ELSE pages[1] \o <<10>> \o JoinNewline(Tail(pages))

\* s without its leading and trailing whitespace.
Trimmed(s) ==
    LET keep == {i \in 1..Len(s) : ~IsSpace(s[i])}
    IN  IF keep = {} THEN <<>>
        ELSE SubSeq(s, CHOOSE i \in keep : \A j \in keep : i <= j,
                       CHOOSE i \in keep : \A j \in keep : i >= j)

\* C6: for every sequence of page texts the result is the texts joined by
\* single newlines in page order, without leading and trailing whitespace.
C6_PdfJoinTrim ==
    pdf.state = "returned" => pdf.result = Trimmed(JoinNewline(pdf.pages))

\* C6 witness: two pages, the first beginning with a space and the last
\* ending with a newline.
C6_Witness ==
    /\ pdf.state = "returned"
    /\ pdf.pages = << <<32, 97>>, <<97, 10>> >>
    /\ pdf.result = <<97, 10, 97>>

\* The provider requests and the strategy the dispatch table gives a type.
TableCalls(m) ==
    IF m = GoogleDoc THEN << <<"files.get">>, <<"export_media", TextPlain>> >>
    ELSE IF m = GoogleSheet THEN << <<"files.get">>, <<"export_media", TextCsv>> >>
    ELSE IF m = GoogleSlides THEN << <<"files.get">>, <<"export_media", TextPlain>> >>
    ELSE IF m = Pdf THEN << <<"files.get">>, <<"get_media">> >>
    ELSE IF IsTextType(m) THEN << <<"files.get">>, <<"get_media">> >>
    ELSE << <<"files.get">> >>

TableStrategy(m) ==
    IF m = GoogleDoc THEN "doc"
    ELSE IF m = GoogleSheet THEN "sheet"
    ELSE IF m = GoogleSlides THEN "slides"
    ELSE IF m = Pdf THEN "pdf"
    ELSE IF IsTextType(m) THEN "text"
    ELSE "unsupported"

\* C7: the dispatch is total and picks one outcome per content type: the
\* export or download of the table and nothing else after the metadata
\* fetch; for any other type HTTPException(400) naming the type, with no
\* export or download request and no content returned.
C7_DispatchTotal ==
    \A r \in Slots :
        Fetched(r) =>
            LET m == Drive[reqs[r].file_id].mimeType
            IN  /\ reqs[r].strategy = TableStrategy(m)
                /\ reqs[r].calls = TableCalls(m)
                /\ Len(reqs[r].calls) <= 2
                /\ Unrecognized(m) =>
                        /\ reqs[r].exc.type = "HTTPException"
                        /\ reqs[r].exc.status = 400
                        /\ reqs[r].exc.detail[Len(reqs[r].exc.detail)] = m
                        /\ reqs[r].resp.body.type = "none"
                /\ reqs[r].resp.status = 200 =>
                        /\ ~Unrecognized(m)
                        /\ reqs[r].resp.body.type = "file"
                        /\ reqs[r].resp.body.id = reqs[r].file_id

\* C7 witness: the request for the application/zip file raised the
\* unsupported-type error after the metadata fetch alone.
C7_Witness ==
    \E r \in Slots :
        /\ Fetched(r) /\ reqs[r].file_id = "zip"
        /\ reqs[r].exc.type = "HTTPException" /\ reqs[r].exc.status = 400
        /\ reqs[r].calls = << <<"files.get">> >>

\* A request inside the check-then-act sequence: past `if not self.service`
\* with the handle seen absent, authenticate() not yet returned.
InWindow(r) == reqs[r].pc = "auth"

\* A request inside list_files or get_file_content.
Running(r) == reqs[r].pc \in {"auth", "call"}

C9_State ==
    /\ startup # "notrun" => phase = "serving"
    /\ (startup = "failed" /\ authOk = 0) => service = None
    /\ \A r \in Slots :
        /\ reqs[r].pc = "call" => reqs[r].auth \in {"ok", "skipped"}
        /\ reqs[r].calls # <<>> => reqs[r].auth \in {"ok", "skipped"}
        /\ reqs[r].auth = "failed" => (reqs[r].pc = "done" /\ reqs[r].resp.status = 500)

\* C9, step part: the session check sends a request to authenticate() exactly
\* when the handle is absent; a failed attempt ends the request and leaves the
\* handle absent; with the handle present no authenticate() call is made.
C9_Step ==
    /\ \A r \in Slots :
        /\ (reqs[r].pc = "queued" /\ reqs'[r].pc \in {"auth", "call"}) =>
                (reqs'[r].pc = "auth" <=> service = None)
        /\ (reqs[r].pc = "auth" /\ reqs'[r].pc = "done") =>
                (service' = None /\ reqs'[r].resp.status = 500 /\ reqs'[r].calls = <<>>)
    /\ service # None => (lastAuth' = lastAuth /\ authOk' = authOk)

\* C9: an authentication failure at startup is not fatal; afterwards every
\* /files and /file request that finds the handle absent authenticates before
\* any provider call, a failure gives a 500 and leaves the handle absent, and
\* after a success no request authenticates again.
C9_LazyRetry == [](C9_State) /\ [][C9_Step]_vars

\* C9 witness: the startup attempt failed, the service is serving, and a
\* request that found the handle absent has authenticated and is at its
\* provider call.
C9_Witness ==
    /\ startup = "failed" /\ phase = "serving"
    /\ \E r \in Slots : reqs[r].pc = "call" /\ reqs[r].auth = "ok"

\* C10: no provider call is issued while the handle is absent; the handle,
\* once established, is never changed; / and /health answer 200 and leave
\* the handle alone, whatever its state.
C10_HandleInvariant ==
    /\ [](\A r \in Slots : (reqs[r].pc = "call" \/ reqs[r].calls # <<>>) => service # None)
    /\ [][service # None => service' = service]_vars
    /\ [][\A r \in Slots :
            (reqs[r].pc = "queued" /\ reqs[r].kind \in {"root", "health"} /\ reqs'[r] # reqs[r]) =>
                /\ reqs'[r].pc = "done"
                /\ reqs'[r].resp.status = 200
                /\ reqs'[r].calls = <<>>
                /\ service' = service]_vars

\* C10 witness: /health answered 200 while the handle is absent.
C10_Witness ==
    \E r \in Slots :
        /\ reqs[r].pc = "done" /\ reqs[r].kind = "health"
        /\ reqs[r].resp.status = 200
        /\ service = None

====
